---- MODULE Spec2Model ----
(***************************************************************************)
(* Model of tools/runtime/patch_runtime.py: a post-link patcher that       *)
(* redirects AArch64 `bl` call sites of an ELF image from one function to  *)
(* another.                                                                *)
(*                                                                         *)
(* Python integers are unbounded, while the 32-bit instruction words and   *)
(* the values the decode step produces exceed the integers TLC computes    *)
(* with.  Such values are kept as "wide" integers <<hi, lo>> standing for  *)
(* hi * 2^26 + lo with 0 <= lo < 2^26; the split is at bit 26 because the  *)
(* bl format is a 6-bit opcode over a 26-bit immediate.  Addresses and     *)
(* branch offsets stay below 2^30 and are plain integers.                  *)
(***************************************************************************)
EXTENDS Integers, Sequences, FiniteSets, TLC

VARIABLES
    disk,           \* bytes of the file at elf_path
    disk0,          \* bytes the file had when the run began
    syms,           \* symbol records target-nm reports for the file
    section,        \* <<file_offset_base, vaddr_base>> target-readelf reports
    replacements,   \* the (old_func, new_func) pairs of the run
    data,           \* the bytearray patch_runtime mutates
    total_patches,  \* run-wide count of patched call sites
    ri,             \* index of the replacement being processed
    pc,             \* position of patch_runtime
    old_addr,       \* resolved address of old_func
    new_addr,       \* resolved address of new_func
    call_sites,     \* call sites found for the current replacement
    si,             \* index of the call site being processed
    result,         \* what patch_runtime returned, or that it raised
    writes,         \* number of times the file was opened for writing
    last,           \* what the last step did (the lines it logged)
    fin,            \* argument of the function under test (function specs)
    fout            \* its result

vars == <<disk, disk0, syms, section, replacements, data, total_patches, ri,
          pc, old_addr, new_addr, call_sites, si, result, writes, last, fin,
          fout>>

mainVars == <<disk, disk0, syms, section, replacements, data, total_patches, ri,
              pc, old_addr, new_addr, call_sites, si, result, writes, last>>

-----------------------------------------------------------------------------
(* Wide integers *)

Two24 == 2^24
Two25 == 2^25
Two26 == 2^26
Two27 == 2^27

\* the wide integer equal to the plain integer n >= 0
Wide(n) == <<n \div Two26, n % Two26>>

\* x << 2
WideShl2(x) == <<x[1] * 4 + (x[2] * 4) \div Two26, (x[2] * 4) % Two26>>

\* x + n for a plain integer n >= 0
WideAdd(x, n) == <<x[1] + (x[2] + n) \div Two26, (x[2] + n) % Two26>>

-----------------------------------------------------------------------------
(* Instruction codec *)

\* 0x94000000 and 0xfc000000, as the top six bits of a word
BL_OPCODE == 37
OPCODE_MASK == 63

EncodeMisaligned ==
    [ok |-> FALSE, err |-> "misaligned", insn |-> <<0, 0>>]
EncodeOutOfRange ==
    [ok |-> FALSE, err |-> "out_of_range", insn |-> <<0, 0>>]

\* Mutant: the upper limit admits one word too many.
encode_bl_instruction_wide_range(pc_, target) ==
    LET offset == target - pc_ IN
    IF offset % 4 # 0 THEN EncodeMisaligned
    ELSE IF ~(-Two27 <= offset /\ offset <= Two27) THEN EncodeOutOfRange
    ELSE [ok |-> TRUE, err |-> "none",
          insn |-> <<BL_OPCODE, (offset \div 4) % Two26>>]

\* Mutant: the byte offset is stored without the shift by two.
encode_bl_instruction_byte_offset(pc_, target) ==
    LET offset == target - pc_ IN
    IF offset % 4 # 0 THEN EncodeMisaligned
    ELSE IF ~(-Two27 <= offset /\ offset <= Two27 - 1) THEN EncodeOutOfRange
    ELSE [ok |-> TRUE, err |-> "none",
          insn |-> <<BL_OPCODE, offset % Two26>>]

\* encode_bl_instruction(pc, target): the bl word, or the ValueError raised
encode_bl_instruction(pc_, target) ==
    LET offset == target - pc_ IN
    IF offset % 4 # 0 THEN EncodeMisaligned
    ELSE IF ~(-Two27 <= offset /\ offset <= Two27 - 1) THEN EncodeOutOfRange
    ELSE [ok |-> TRUE, err |-> "none",
          insn |-> <<BL_OPCODE, (offset \div 4) % Two26>>]

\* (current_insn & 0xfc000000) == 0x94000000
is_bl(current_insn) == current_insn[1] = BL_OPCODE

\* Lines 153-158 of patch_call_site: the target the existing word is taken
\* to encode.  `imm26 |= 0xfc000000` sets bits 26..31 of a non-negative
\* Python integer, so the "sign-extended" immediate is a large positive value.
decode_current_target(current_insn, call_vaddr) ==
    LET imm26 == <<0, current_insn[2]>>
        ext == IF (imm26[2] \div Two25) % 2 = 1
               THEN <<OPCODE_MASK, imm26[2]>>
               ELSE imm26
        current_offset == WideShl2(ext)
    IN  WideAdd(current_offset, call_vaddr)

-----------------------------------------------------------------------------
(* Byte buffers *)

\* struct.unpack_from('<I', data, file_offset)[0], file_offset counted from 0
unpack_from(buf, file_offset) ==
    LET b0 == buf[file_offset + 1]
        b1 == buf[file_offset + 2]
        b2 == buf[file_offset + 3]
        b3 == buf[file_offset + 4]
    IN  <<b3 \div 4, b0 + b1 * 256 + b2 * 65536 + (b3 % 4) * Two24>>

\* the four bytes struct.pack('<I', insn) produces
pack_bytes(insn) ==
    << insn[2] % 256,
       (insn[2] \div 256) % 256,
       (insn[2] \div 65536) % 256,
       insn[1] * 4 + insn[2] \div Two24 >>

\* struct.pack_into('<I', data, file_offset, insn)
pack_into(buf, file_offset, insn) ==
    [i \in 1..Len(buf) |->
        IF i > file_offset /\ i <= file_offset + 4
        THEN pack_bytes(insn)[i - file_offset]
        ELSE buf[i]]

-----------------------------------------------------------------------------
(* Symbol resolver *)

NotFound == [found |-> FALSE, addr |-> 0]

\* `sym_type in 'Tt'` is a substring test on one whitespace-separated token
is_function_type(sym_type) == sym_type \in {"T", "t", "Tt"}

\* Mutant: the preference is ignored and the first match always wins.
find_symbol_address_no_preference(records, symbol_name, prefer_type) ==
    LET matches == SelectSeq(records,
            LAMBDA r : r.name = symbol_name /\ is_function_type(r.typ))
    IN  IF matches = <<>> THEN NotFound
        ELSE [found |-> TRUE, addr |-> matches[1].addr]

\* find_symbol_address on the records target-nm printed; prefer_type "none"
\* stands for None.  found = FALSE is the RuntimeError of line 89.
find_symbol_address(records, symbol_name, prefer_type) ==
    LET matches == SelectSeq(records,
            LAMBDA r : r.name = symbol_name /\ is_function_type(r.typ))
        preferred == SelectSeq(matches, LAMBDA r : r.typ = prefer_type)
    IN  IF matches = <<>> THEN NotFound
        ELSE IF prefer_type # "none" /\ preferred # <<>>
             THEN [found |-> TRUE, addr |-> preferred[1].addr]
             ELSE [found |-> TRUE, addr |-> matches[1].addr]

-----------------------------------------------------------------------------
(* Call-site scanner *)

\* virtual address of the first byte of the image
ImageVBase == 4 * 1024

\* the target a disassembler prints for a bl word at addr (signed immediate)
bl_target(insn, addr) ==
    IF insn[2] >= Two25 THEN addr + 4 * (insn[2] - Two26)
                        ELSE addr + 4 * insn[2]

\* The `bl` lines of `target-objdump -d` for a file with these bytes: one
\* line per word of the image that is a bl instruction, in address order.
objdump_bl_lines(image) ==
    LET words == [i \in 1..(Len(image) \div 4) |->
                    [call_addr |-> ImageVBase + 4 * (i - 1),
                     insn |-> unpack_from(image, 4 * (i - 1))]]
        bls == SelectSeq(words, LAMBDA w : is_bl(w.insn))
    IN  [i \in 1..Len(bls) |->
            [call_addr |-> bls[i].call_addr,
             insn |-> bls[i].insn,
             target |-> bl_target(bls[i].insn, bls[i].call_addr)]]

\* find_call_sites on the disassembly lines: those whose target is target_addr
find_call_sites(lines, target_addr) ==
    LET hits == SelectSeq(lines, LAMBDA l : l.target = target_addr)
    IN  [i \in 1..Len(hits) |->
            [call_addr |-> hits[i].call_addr, insn |-> hits[i].insn]]

-----------------------------------------------------------------------------
(* Patching one call site *)

\* What one call of patch_call_site did: ret is "True", "False" or "raise"
\* (an exception left the function), why names the line it logged, warn is
\* whether the target-mismatch warning of line 161 was logged.
SiteResult(ret, why, warn, buf, file_offset) ==
    [ret |-> ret, why |-> why, warn |-> warn, data |-> buf,
     file_offset |-> file_offset]

\* Mutant: a site whose decoded target is not old_target is skipped.
patch_call_site_strict(buf, file_offset_base, vaddr_base, call_vaddr, old_target, new_target) ==
    LET file_offset == file_offset_base + (call_vaddr - vaddr_base) IN
    IF file_offset < 0 \/ file_offset >= Len(buf)
    THEN SiteResult("False", "invalid_offset", FALSE, buf, file_offset)
    ELSE IF file_offset + 4 > Len(buf)
    THEN SiteResult("raise", "struct_error", FALSE, buf, file_offset)
    ELSE
    LET current_insn == unpack_from(buf, file_offset) IN
    IF ~is_bl(current_insn)
    THEN SiteResult("False", "not_bl", FALSE, buf, file_offset)
    ELSE
    LET current_target == decode_current_target(current_insn, call_vaddr)
        warn == current_target # Wide(old_target)
        enc == encode_bl_instruction(call_vaddr, new_target)
    IN  IF warn
        THEN SiteResult("False", "mismatch", warn, buf, file_offset)
        ELSE IF ~enc.ok
        THEN SiteResult("False", enc.err, warn, buf, file_offset)
        ELSE SiteResult("True", "patched", warn,
                        pack_into(buf, file_offset, enc.insn), file_offset)

\* Mutant: the new word is written one word further on.
patch_call_site_next_word(buf, file_offset_base, vaddr_base, call_vaddr, old_target, new_target) ==
    LET file_offset == file_offset_base + (call_vaddr - vaddr_base) IN
    IF file_offset < 0 \/ file_offset >= Len(buf)
    THEN SiteResult("False", "invalid_offset", FALSE, buf, file_offset)
    ELSE IF file_offset + 4 > Len(buf)
    THEN SiteResult("raise", "struct_error", FALSE, buf, file_offset)
    ELSE
    LET current_insn == unpack_from(buf, file_offset) IN
    IF ~is_bl(current_insn)
    THEN SiteResult("False", "not_bl", FALSE, buf, file_offset)
    ELSE
    LET current_target == decode_current_target(current_insn, call_vaddr)
        warn == current_target # Wide(old_target)
        enc == encode_bl_instruction(call_vaddr, new_target)
    IN  IF ~enc.ok
        THEN SiteResult("False", enc.err, warn, buf, file_offset)
        ELSE SiteResult("True", "patched", warn,
                        pack_into(buf, file_offset + 4, enc.insn), file_offset)

\* patch_call_site(data, file_offset_base, vaddr_base, call_vaddr,
\*                 old_target, new_target)
\* struct.unpack_from raises struct.error when fewer than four bytes remain
\* at file_offset; nothing in patch_runtime.py catches it.
patch_call_site(buf, file_offset_base, vaddr_base, call_vaddr, old_target, new_target) ==
    LET file_offset == file_offset_base + (call_vaddr - vaddr_base) IN
    IF file_offset < 0 \/ file_offset >= Len(buf)
    THEN SiteResult("False", "invalid_offset", FALSE, buf, file_offset)
    ELSE IF file_offset + 4 > Len(buf)
    THEN SiteResult("raise", "struct_error", FALSE, buf, file_offset)
    ELSE
    LET current_insn == unpack_from(buf, file_offset) IN
    IF ~is_bl(current_insn)
    THEN SiteResult("False", "not_bl", FALSE, buf, file_offset)
    ELSE
    LET current_target == decode_current_target(current_insn, call_vaddr)
        warn == current_target # Wide(old_target)
        enc == encode_bl_instruction(call_vaddr, new_target)
    IN  IF ~enc.ok
        THEN SiteResult("False", enc.err, warn, buf, file_offset)
        ELSE SiteResult("True", "patched", warn,
                        pack_into(buf, file_offset, enc.insn), file_offset)

-----------------------------------------------------------------------------
(* Inputs of a run *)

\* most replacements in one command line
MaxRepl == 2
\* instruction words in the image
NWords == 2

\* the symbols of the image; "wb" is defined twice, as in the documented
\* use (a local runtime function and a global one of the same name)
SymTab ==
    << [addr |-> 8256,      typ |-> "T", name |-> "wb"],     \* 0x2040
       [addr |-> 8192,      typ |-> "t", name |-> "wb"],     \* 0x2000
       [addr |-> 8192,      typ |-> "T", name |-> "alias"],  \* 0x2000
       [addr |-> 2048,      typ |-> "t", name |-> "low"],    \* 0x800
       [addr |-> 8258,      typ |-> "T", name |-> "odd"],    \* 0x2042
       [addr |-> 134221824, typ |-> "T", name |-> "far"],    \* 0x8001000
       [addr |-> 12288,     typ |-> "D", name |-> "data"] >> \* 0x3000

\* the (old_func, new_func) pairs a command line is made of
ReplPairs ==
    { <<"wb", "wb">>, <<"wb", "alias">>, <<"wb", "far">>, <<"wb", "odd">>,
      <<"gone", "wb">>, <<"wb", "data">>, <<"low", "alias">> }

ReplLists == UNION { [1..n -> ReplPairs] : n \in 1..MaxRepl }

WordKinds == {"bl_wb", "bl_low", "nop"}

\* the bytes of a word of the given kind placed at addr
word_bytes(kind, addr) ==
    CASE kind = "bl_wb"  -> pack_bytes(<<BL_OPCODE, ((8192 - addr) \div 4) % Two26>>)
      [] kind = "bl_low" -> pack_bytes(<<BL_OPCODE, ((2048 - addr) \div 4) % Two26>>)
      [] kind = "nop"    -> <<31, 32, 3, 213>>                 \* 0xd503201f

Images ==
    { [i \in 1..(4 * NWords) |->
          word_bytes(k[(i - 1) \div 4 + 1],
                     ImageVBase + 4 * ((i - 1) \div 4))[((i - 1) % 4) + 1]]
      : k \in [1..NWords -> WordKinds] }

\* (file offset, virtual address) pairs target-readelf may report for .text:
\* the mapping the disassembly addresses follow, and two that differ from it
SectionInfos ==
    { <<0, ImageVBase>>, <<6, ImageVBase>>, <<4, ImageVBase + 8>> }

NoStep == [op |-> "none", ret |-> "none", why |-> "none", warn |-> FALSE,
           call_vaddr |-> 0, file_offset |-> 0]

Step(op, why) == [NoStep EXCEPT !.op = op, !.why = why]

FnIdle == fin = <<>> /\ fout = <<>>

Init ==
    /\ disk \in Images
    /\ disk0 = disk
    /\ syms = SymTab
    /\ section \in SectionInfos
    /\ replacements \in ReplLists
    /\ data = <<>>
    /\ total_patches = 0
    /\ ri = 0
    /\ pc = "start"
    /\ old_addr = 0
    /\ new_addr = 0
    /\ call_sites = <<>>
    /\ si = 0
    /\ result = "none"
    /\ writes = 0
    /\ last = NoStep
    /\ FnIdle

-----------------------------------------------------------------------------
(* patch_runtime *)

\* get_text_section_info raises: the run ends before the file is read
SectionLookupFails ==
    /\ pc = "start"
    /\ pc' = "raised"
    /\ result' = "raised"
    /\ last' = Step("get_text_section_info", "raised")
    /\ UNCHANGED <<disk, disk0, syms, section, replacements, data, total_patches, ri,
                   old_addr, new_addr, call_sites, si, writes, fin, fout>>

\* lines 189-196: section info found, file read into the bytearray
LoadImage ==
    /\ pc = "start"
    /\ data' = disk
    /\ total_patches' = 0
    /\ ri' = 1
    /\ pc' = "loop"
    /\ last' = Step("read", "none")
    /\ UNCHANGED <<disk, disk0, syms, section, replacements, old_addr, new_addr,
                   call_sites, si, result, writes, fin, fout>>

\* Mutant: the call sites are looked for in the buffer, not in the file.
Resolved_from_buffer(i) ==
    LET o == find_symbol_address(syms, replacements[i][1], "t")
        n == find_symbol_address(syms, replacements[i][2], "T")
    IN  [old |-> o, new |-> n,
         sites |-> IF o.found
                   THEN find_call_sites(objdump_bl_lines(data), o.addr)
                   ELSE <<>>]

\* the addresses and call sites lines 206-212 compute for replacement i
Resolved(i) ==
    LET o == find_symbol_address(syms, replacements[i][1], "t")
        n == find_symbol_address(syms, replacements[i][2], "T")
    IN  [old |-> o, new |-> n,
         sites |-> IF o.found
                   THEN find_call_sites(objdump_bl_lines(disk), o.addr)
                   ELSE <<>>]

\* Lines 206-212 when a collaborator process fails: subprocess.run(...,
\* check=True) raises CalledProcessError, which is not a RuntimeError, so the
\* handler of line 224 does not catch it and it leaves patch_runtime.  The
\* assignments of lines 206 and 207 that came before the failing call stand.
CollaboratorFails ==
    /\ pc = "loop"
    /\ ri <= Len(replacements)
    /\ \E call \in {"nm_old", "nm_new", "objdump"} :
          /\ call = "nm_new" => Resolved(ri).old.found
          /\ call = "objdump" => Resolved(ri).old.found /\ Resolved(ri).new.found
          /\ old_addr' = IF call = "nm_old" THEN old_addr
                          ELSE Resolved(ri).old.addr
          /\ new_addr' = IF call = "objdump" THEN Resolved(ri).new.addr
                          ELSE new_addr
          /\ last' = Step("collaborator_failed", call)
    /\ pc' = "raised"
    /\ result' = "raised"
    /\ UNCHANGED <<disk, disk0, syms, section, replacements, data, total_patches, ri,
                   call_sites, si, writes, fin, fout>>

\* Mutant: a replacement that cannot be resolved ends the loop.
ProcessReplacement_stop_on_error ==
    /\ pc = "loop"
    /\ ri <= Len(replacements)
    /\ LET r == Resolved(ri) IN
       IF ~r.old.found \/ ~r.new.found \/ r.sites = <<>>
       THEN /\ ri' = Len(replacements) + 1
            /\ last' = Step("skip", "stopped")
            /\ UNCHANGED <<old_addr, new_addr, call_sites, si, pc>>
       ELSE /\ old_addr' = r.old.addr
            /\ new_addr' = r.new.addr
            /\ call_sites' = r.sites
            /\ si' = 1
            /\ pc' = "sites"
            /\ last' = Step("sites_found", "none")
            /\ UNCHANGED ri
    /\ UNCHANGED <<disk, disk0, syms, section, replacements, data, total_patches,
                   result, writes, fin, fout>>

\* Lines 199-217 and 224-226 with every collaborator call succeeding: resolve
\* both names and find the call sites; a RuntimeError (symbol not found) or
\* an empty list of call sites moves on to the next replacement.
ProcessReplacement ==
    /\ pc = "loop"
    /\ ri <= Len(replacements)
    /\ LET r == Resolved(ri) IN
       IF ~r.old.found
       THEN /\ ri' = ri + 1
            /\ last' = Step("skip", "old_not_found")
            /\ UNCHANGED <<old_addr, new_addr, call_sites, si, pc>>
       ELSE IF ~r.new.found
       THEN /\ ri' = ri + 1
            /\ old_addr' = r.old.addr
            /\ last' = Step("skip", "new_not_found")
            /\ UNCHANGED <<new_addr, call_sites, si, pc>>
       ELSE IF r.sites = <<>>
       THEN /\ ri' = ri + 1
            /\ old_addr' = r.old.addr
            /\ new_addr' = r.new.addr
            /\ call_sites' = r.sites
            /\ last' = Step("skip", "no_call_sites")
            /\ UNCHANGED <<si, pc>>
       ELSE /\ old_addr' = r.old.addr
            /\ new_addr' = r.new.addr
            /\ call_sites' = r.sites
            /\ si' = 1
            /\ pc' = "sites"
            /\ last' = Step("sites_found", "none")
            /\ UNCHANGED ri
    /\ UNCHANGED <<disk, disk0, syms, section, replacements, data, total_patches,
                   result, writes, fin, fout>>

\* Lines 220-222, one iteration: patch_call_site on the next call site, the
\* counter, and the move to the next site or the next replacement.
PatchSite ==
    /\ pc = "sites"
    /\ si <= Len(call_sites)
    /\ LET call_vaddr == call_sites[si].call_addr
           r == patch_call_site(data, section[1], section[2], call_vaddr,
                                old_addr, new_addr)
       IN  /\ last' = [op |-> "patch_call_site", ret |-> r.ret, why |-> r.why,
                       warn |-> r.warn, call_vaddr |-> call_vaddr,
                       file_offset |-> r.file_offset]
           /\ data' = r.data
           /\ total_patches' = IF r.ret = "True" THEN total_patches + 1
                                                 ELSE total_patches
           /\ IF r.ret = "raise"
              THEN /\ pc' = "raised"
                   /\ result' = "raised"
                   /\ UNCHANGED <<ri, si>>
              ELSE IF si < Len(call_sites)
              THEN /\ si' = si + 1
                   /\ UNCHANGED <<ri, pc, result>>
              ELSE /\ si' = si + 1
                   /\ ri' = ri + 1
                   /\ pc' = "loop"
                   /\ UNCHANGED result
    /\ UNCHANGED <<disk, disk0, syms, section, replacements, old_addr, new_addr,
                   call_sites, writes, fin, fout>>

\* Lines 228-236: write the buffer if anything was patched, and return
Commit ==
    /\ pc = "loop"
    /\ ri > Len(replacements)
    /\ IF total_patches > 0
       THEN /\ disk' = data
            /\ writes' = writes + 1
            /\ result' = "True"
            /\ last' = Step("write", "none")
       ELSE /\ result' = "False"
            /\ last' = Step("no_patches", "none")
            /\ UNCHANGED <<disk, writes>>
    /\ pc' = "done"
    /\ UNCHANGED <<disk0, syms, section, replacements, data, total_patches, ri,
                   old_addr, new_addr, call_sites, si, fin, fout>>

Next ==
    \/ SectionLookupFails
    \/ LoadImage
    \/ CollaboratorFails
    \/ ProcessReplacement
    \/ PatchSite
    \/ Commit

Spec == Init /\ [][Next]_vars

-----------------------------------------------------------------------------
(* The instruction codec on its own: encode_bl_instruction applied to       *)
(* (pc, target) pairs around the limits of the format, and the decode step  *)
(* of patch_call_site applied to the word it produced.                      *)

\* words on either side of each offset tried
EncSlack == 2

MainIdle ==
    /\ disk = <<>> /\ disk0 = <<>> /\ syms = <<>> /\ section = <<0, 0>>
    /\ replacements = <<>> /\ data = <<>> /\ total_patches = 0 /\ ri = 0
    /\ pc = "idle" /\ old_addr = 0 /\ new_addr = 0 /\ call_sites = <<>>
    /\ si = 0 /\ result = "none" /\ writes = 0 /\ last = NoStep

EncPCs == {ImageVBase, 2 * ImageVBase, 2^28}

EncCentres == {0, 4160, Two27, -Two27, 2^28, -(2^28)}

EncInputs ==
    { in \in { <<p, p + c + d>> : p \in EncPCs, c \in EncCentres,
                                  d \in (-4 * EncSlack)..(4 * EncSlack) }
      : in[2] >= 0 }

InitEnc ==
    /\ MainIdle
    /\ fin \in EncInputs
    /\ fout = <<>>

\* encode_bl_instruction(pc, target), then lines 153-158 on its result
EncodeDecode ==
    /\ pc = "idle"
    /\ fout = <<>>
    /\ Len(fin) = 2
    /\ LET enc == encode_bl_instruction(fin[1], fin[2]) IN
       fout' = [enc |-> enc,
                decoded |-> IF enc.ok
                            THEN decode_current_target(enc.insn, fin[1])
                            ELSE <<0, 0>>]
    /\ UNCHANGED <<mainVars, fin>>

NextEnc == EncodeDecode

SpecEnc == InitEnc /\ [][NextEnc]_vars

-----------------------------------------------------------------------------
(* The symbol resolver on its own: find_symbol_address applied to symbol    *)
(* tables of every shape up to MaxSyms records.                             *)

\* most records in a symbol table
MaxSyms == 3

SymNames == {"f", "g"}
\* nm symbol classes: global text, local text, data
SymTypes == {"T", "t", "D"}

\* symbol tables; the i-th record has address 16 * i, so that an address
\* names the record it came from
SymTables ==
    UNION { { [i \in 1..n |-> [addr |-> 16 * i, typ |-> k[i][1],
                               name |-> k[i][2]]]
              : k \in [1..n -> SymTypes \X SymNames] }
            : n \in 0..MaxSyms }

InitSym ==
    /\ MainIdle
    /\ fin \in { <<t, "f", p>> : t \in SymTables, p \in {"T", "t", "none"} }
    /\ fout = <<>>

\* find_symbol_address(elf_path, symbol_name, env, prefer_type)
Resolve ==
    /\ pc = "idle"
    /\ fout = <<>>
    /\ Len(fin) = 3
    /\ fout' = find_symbol_address(fin[1], fin[2], fin[3])
    /\ UNCHANGED <<mainVars, fin>>

NextSym == Resolve

SpecSym == InitSym /\ [][NextSym]_vars

-----------------------------------------------------------------------------
(* What the format prescribes, stated apart from the code *)

\* offset can be encoded: a multiple of 4 in -2^27 .. 2^27 - 4
Encodable(offset) ==
    /\ offset % 4 = 0
    /\ offset >= -Two27
    /\ offset <= Two27 - 4

\* the 26-bit two's complement field holding offset / 4
ExpectedImm26(offset) ==
    IF offset >= 0 THEN offset \div 4 ELSE Two26 - ((-offset) \div 4)

\* the little-endian bytes of 0x94000000 | imm26
ExpectedBytes(offset) ==
    LET imm == ExpectedImm26(offset) IN
    << imm % 256, (imm \div 256) % 256, (imm \div 65536) % 256,
       148 + imm \div Two24 >>

EncDone == pc = "idle" /\ Len(fin) = 2 /\ fout # <<>>
EncOffset == fin[2] - fin[1]

-----------------------------------------------------------------------------
(* Claims about the instruction codec (SpecEnc) *)

\* C2: for every pc and target with target - pc a multiple of 4 within the
\* representable range, negative offsets included, decoding the word that
\* encode_bl_instruction(pc, target) produced with the decode rule of
\* patch_call_site yields exactly target.
C2_RoundTrip ==
    (EncDone /\ fout.enc.ok) => fout.decoded = Wide(fin[2])

\* C3: encode_bl_instruction fails for every offset that is not a multiple
\* of 4, whatever its magnitude; for aligned offsets it succeeds up to and
\* at +2^27 - 4 and -2^27 and fails from +2^27 and -2^27 - 4 on; on success
\* the word is 0x94000000 | ((offset >> 2) & 0x3FFFFFF).
C3_EncodeBoundaries ==
    EncDone =>
        /\ EncOffset % 4 # 0 =>
              ~fout.enc.ok /\ fout.enc.err = "misaligned"
        /\ Encodable(EncOffset) =>
              /\ fout.enc.ok
              /\ fout.enc.insn = <<37, ExpectedImm26(EncOffset)>>
              /\ pack_bytes(fout.enc.insn) = ExpectedBytes(EncOffset)
        /\ (EncOffset % 4 = 0 /\ ~Encodable(EncOffset)) =>
              ~fout.enc.ok /\ fout.enc.err = "out_of_range"
        /\ EncOffset \in {Two27 - 4, -Two27} => fout.enc.ok
        /\ EncOffset \in {Two27, -Two27 - 4} =>
              ~fout.enc.ok /\ fout.enc.err = "out_of_range"

\* the largest offset was encoded, as 0x95ffffff
C3_Witness ==
    /\ EncDone
    /\ EncOffset = Two27 - 4
    /\ fout.enc.ok
    /\ fout.enc.insn = <<37, Two25 - 1>>

-----------------------------------------------------------------------------
(* Claims about the symbol resolver (SpecSym) *)

SymDone == pc = "idle" /\ Len(fin) = 3 /\ fout # <<>>

\* places of the records named fin[2] that are function symbols
SymMatching ==
    { i \in 1..Len(fin[1]) :
        fin[1][i].name = fin[2] /\ fin[1][i].typ \in {"T", "t"} }

\* those among them of the preferred visibility
SymPreferred == { i \in SymMatching : fin[1][i].typ = fin[3] }

Least(S) == CHOOSE x \in S : \A y \in S : x <= y

\* C8: among the records whose name is the requested name and whose
\* visibility is T or t, find_symbol_address returns the address of the
\* first record of the preferred visibility when a preference is given and
\* such a record exists, otherwise the address of the first matching record;
\* it fails with symbol-not-found exactly when no record matches.
C8_ResolutionOrder ==
    SymDone =>
        /\ fout.found <=> SymMatching # {}
        /\ SymMatching # {} =>
              fout.addr =
                 fin[1][IF fin[3] # "none" /\ SymPreferred # {}
                        THEN Least(SymPreferred)
                        ELSE Least(SymMatching)].addr

\* a local symbol was preferred over a global one listed before it
C8_Witness ==
    /\ SymDone
    /\ fin[3] = "t"
    /\ SymPreferred # {}
    /\ Least(SymPreferred) > Least(SymMatching)
    /\ fout.found
    /\ fout.addr = 16 * Least(SymPreferred)

-----------------------------------------------------------------------------
(* Claims about a run of patch_runtime (Spec) *)

\* patch_runtime is about to call patch_call_site on call_sites[si]
AtSite == pc = "sites" /\ si <= Len(call_sites)
SiteVaddr == call_sites[si].call_addr
\* the buffer offset the section mapping gives that call site
SiteOffset == section[1] + (SiteVaddr - section[2])
\* the four bytes at that offset lie inside the buffer
WordInside == SiteOffset >= 0 /\ SiteOffset + 4 <= Len(data)
SiteWord == unpack_from(data, SiteOffset)
\* the run ended, by returning or by an exception, after the section lookup
RunEnded == pc \in {"done", "raised"} /\ last.op # "get_text_section_info"
\* the file has been read into the buffer
Loaded == pc # "start" /\ last.op # "get_text_section_info"

\* C1: in every run that gets past section lookup the file is written at
\* most once, only after every replacement has been processed, with the
\* whole buffer, and if and only if the count of patched call sites is
\* greater than zero; with a count of zero the file keeps its bytes and the
\* run does not report success, with a count above zero it reports success.
C1_WrittenIffPatched ==
    /\ writes <= 1
    /\ writes = 1 => ri > Len(replacements) /\ disk = data
    /\ writes = 0 => disk = disk0
    /\ RunEnded =>
          /\ total_patches > 0 <=> writes = 1
          /\ total_patches = 0 => result # "True" /\ disk = disk0
          /\ total_patches > 0 => result = "True"

\* the site fails in one of the ways the claim lists
SiteFailure ==
    \/ ~WordInside
    \/ ~is_bl(SiteWord)
    \/ ~Encodable(new_addr - SiteVaddr)

\* the loops move on by exactly one call site
NextSiteOrReplacement ==
    IF si < Len(call_sites)
    THEN pc' = "sites" /\ si' = si + 1 /\ ri' = ri
    ELSE pc' = "loop" /\ ri' = ri + 1

\* C4: when a call site's buffer offset is out of bounds (negative, past the
\* end, or leaving fewer than four bytes), or its word is not a bl, or the
\* new instruction cannot be encoded, only that site is skipped and not
\* counted, and the run goes on with the next site or the next replacement.
C4_SiteFailureSkipsOnlyThatSite ==
    [][ (AtSite /\ SiteFailure) =>
            /\ data' = data
            /\ total_patches' = total_patches
            /\ result' = "none"
            /\ NextSiteOrReplacement ]_vars

\* C5: a collaborator call that fails while a replacement is processed
\* abandons that replacement only: the run goes on with the next
\* replacement, and a run that patched something still writes the file.
C5_CollaboratorFailureDoesNotAbort ==
    /\ [][ (pc = "loop" /\ last'.op = "collaborator_failed") =>
              /\ pc' = "loop"
              /\ ri' = ri + 1
              /\ result' = "none"
              /\ data' = data
              /\ total_patches' = total_patches ]_vars
    /\ [](RunEnded /\ total_patches > 0 => writes = 1 /\ disk = data)

\* no symbol record of a function class has this name
Unresolved(name) ==
    ~\E k \in 1..Len(syms) :
        syms[k].name = name /\ syms[k].typ \in {"T", "t"}

\* no bl word of the image calls addr
NoCallers(image, addr) ==
    \A k \in 1..(Len(image) \div 4) :
        LET w == unpack_from(image, 4 * (k - 1)) IN
        is_bl(w) => bl_target(w, ImageVBase + 4 * (k - 1)) # addr

\* replacement i fails as a whole on a file with the bytes of image
ReplacementFails(image, i) ==
    \/ Unresolved(replacements[i][1])
    \/ Unresolved(replacements[i][2])
    \/ NoCallers(image,
                 find_symbol_address(syms, replacements[i][1], "t").addr)

\* C6: when the source or the target name of a replacement resolves to no
\* symbol, or the source address has no call sites, the replacement patches
\* nothing, leaves the buffer as it is, and the run goes on with the next
\* replacement; if it was the only replacement the file is left unchanged
\* and the run reports failure.
C6_ReplacementFailureIsLocal ==
    /\ [][ (/\ pc = "loop"
            /\ ri <= Len(replacements)
            /\ last'.op # "collaborator_failed"
            /\ ReplacementFails(disk, ri)) =>
              /\ data' = data
              /\ total_patches' = total_patches
              /\ disk' = disk
              /\ result' = "none"
              /\ pc' = "loop"
              /\ ri' = ri + 1 ]_vars
    /\ [](pc = "done" /\ Len(replacements) = 1 /\ ReplacementFails(disk0, 1)
            => disk = disk0 /\ writes = 0 /\ result = "False")

\* the target of the first of two replacements was not found, and the run
\* stands before the second
C6_Witness ==
    /\ pc = "loop"
    /\ Len(replacements) = 2
    /\ ri = 2
    /\ last.op = "skip"
    /\ last.why = "new_not_found"
    /\ Unresolved(replacements[1][2])
    /\ data = disk0
    /\ total_patches = 0

\* C7: a call site inside the buffer that holds a bl word calling something
\* else than the resolved source address is, when the new target can be
\* encoded, rewritten to call the new target and counted, with a warning.
C7_MismatchIsPatched ==
    [][ (/\ AtSite
         /\ WordInside
         /\ is_bl(SiteWord)
         /\ bl_target(SiteWord, SiteVaddr) # old_addr
         /\ Encodable(new_addr - SiteVaddr)) =>
            /\ last'.ret = "True"
            /\ last'.warn
            /\ total_patches' = total_patches + 1
            /\ SubSeq(data', SiteOffset + 1, SiteOffset + 4)
                  = ExpectedBytes(new_addr - SiteVaddr) ]_vars

\* the second replacement found a site the first had redirected to 0x2040,
\* and redirected it to 0x2000
C7_Witness ==
    /\ replacements = << <<"wb", "wb">>, <<"wb", "alias">> >>
    /\ section = <<0, ImageVBase>>
    /\ last.op = "patch_call_site"
    /\ last.ret = "True"
    /\ last.warn
    /\ total_patches >= 2
    /\ SubSeq(data, last.file_offset + 1, last.file_offset + 4)
          = ExpectedBytes(8192 - last.call_vaddr)

\* C9 as stated, in what it says of the bytes: when the source and target
\* names of a replacement resolve to the same address, a call site found
\* for it that is rewritten is counted, and the bytes of the buffer after
\* the rewrite are the bytes before it.
C9_NoOpKeepsBytes ==
    [][ (AtSite /\ old_addr = new_addr /\ last'.ret = "True") =>
            /\ total_patches' = total_patches + 1
            /\ data' = data ]_vars

\* C9 as amended: when the source and target names of a replacement resolve
\* to the same address, every call site found for it whose four bytes in
\* the buffer, at the offset the section mapping gives, are a bl word that
\* calls that address is rewritten and counted, and the bytes of the buffer
\* stay as they were.
C9_NoOpKeepsBytesOfMatchingSites ==
    [][ (/\ AtSite
         /\ old_addr = new_addr
         /\ WordInside
         /\ is_bl(SiteWord)
         /\ bl_target(SiteWord, SiteVaddr) = old_addr) =>
            /\ last'.ret = "True"
            /\ ~last'.warn
            /\ total_patches' = total_patches + 1
            /\ data' = data ]_vars

\* a site of the first replacement, wb -> alias, was rewritten and counted
\* and the buffer still holds the bytes of the file
C9_Witness ==
    /\ replacements[1] = <<"wb", "alias">>
    /\ old_addr = new_addr
    /\ last.op = "patch_call_site"
    /\ last.ret = "True"
    /\ ~last.warn
    /\ total_patches >= 1
    /\ data = disk0

\* C10: a successful patch_call_site sets the four bytes at buffer offset
\* file_offset_base + (call_vaddr - vaddr_base) to the little-endian bl word
\* calling the new target and leaves every other byte as it was; a failed
\* one leaves the whole buffer as it was; the length of the buffer never
\* changes once the file is read.
C10_SingleWordSubstitution ==
    /\ [][ AtSite =>
              /\ last'.file_offset = SiteOffset
              /\ last'.ret = "True" =>
                    /\ WordInside
                    /\ Len(data') = Len(data)
                    /\ \A i \in 1..Len(data) :
                          data'[i] =
                             IF i > SiteOffset /\ i <= SiteOffset + 4
                             THEN ExpectedBytes(new_addr - SiteVaddr)
                                                    [i - SiteOffset]
                             ELSE data[i]
              /\ last'.ret # "True" => data' = data ]_vars
    /\ [][ (Loaded /\ ~AtSite) => data' = data ]_vars
    /\ [](Loaded => Len(data) = Len(disk0))

\* the call at 0x1000 was redirected to 0x2040: its word is 0x94000410, the
\* branch offset 0x1040, and the rest of the buffer is as in the file
C10_Witness ==
    /\ last.op = "patch_call_site"
    /\ last.ret = "True"
    /\ last.call_vaddr = 4096
    /\ last.file_offset = 0
    /\ new_addr = 8256
    /\ total_patches = 1
    /\ SubSeq(data, 1, 4) = <<16, 4, 0, 148>>
    /\ SubSeq(data, 5, Len(data)) = SubSeq(disk0, 5, Len(disk0))

-----------------------------------------------------------------------------
(* Which sites a replacement selects, and what the buffer ends up holding *)

\* the words of the file the run began with, numbered from 1
Words0 == 1..(Len(disk0) \div 4)
WordAddr(k) == ImageVBase + 4 * (k - 1)
\* the buffer offset the section mapping gives the word at WordAddr(k)
WordOffset(k) == section[1] + (WordAddr(k) - section[2])

\* the address word k of the original file calls, -1 when it is no bl
OriginalCallee(k) ==
    LET w == unpack_from(disk0, 4 * (k - 1)) IN
    IF is_bl(w) THEN bl_target(w, WordAddr(k)) ELSE -1

SrcAddr(j) == find_symbol_address(syms, replacements[j][1], "t").addr
DstAddr(j) == find_symbol_address(syms, replacements[j][2], "T").addr
BothResolved(j) ==
    ~Unresolved(replacements[j][1]) /\ ~Unresolved(replacements[j][2])

\* replacement j selects the site at word k: the word called the source
\* address of j in the original file
Selects(j, k) == BothResolved(j) /\ OriginalCallee(k) = SrcAddr(j)

\* the patch of replacement j at the site of word k succeeds: the four
\* bytes at its offset lie in the buffer, were a bl word in the original
\* file, and the new target can be encoded
Patchable(j, k) ==
    /\ WordOffset(k) >= 0
    /\ WordOffset(k) + 4 <= Len(disk0)
    /\ is_bl(unpack_from(disk0, WordOffset(k)))
    /\ Encodable(DstAddr(j) - WordAddr(k))

\* the replacements among the first n that patched the site of word k
Patchers(k, n) == { j \in 1..n : Selects(j, k) /\ Patchable(j, k) }

Greatest(S) == CHOOSE x \in S : \A y \in S : x >= y

\* the buffer after the first n replacements: at the offset of every site
\* the word of the last replacement that patched it, elsewhere the bytes
\* of the original file
ExpectedBuffer(n) ==
    [i \in 1..Len(disk0) |->
        LET ks == { k \in Words0 : /\ i > WordOffset(k)
                                   /\ i <= WordOffset(k) + 4
                                   /\ Patchers(k, n) # {} }
        IN  IF ks = {} THEN disk0[i]
            ELSE LET k == CHOOSE x \in ks : TRUE IN
                 ExpectedBytes(DstAddr(Greatest(Patchers(k, n)))
                               - WordAddr(k))[i - WordOffset(k)]]

\* the call sites in hand are the words of the original file that called
\* old_addr, in address order
SitesAreOfOriginalFile ==
    LET ks == { k \in Words0 : OriginalCallee(k) = old_addr } IN
    /\ Len(call_sites) = Cardinality(ks)
    /\ \A i \in 1..Len(call_sites) :
          /\ \E k \in ks : call_sites[i].call_addr = WordAddr(k)
          /\ \A h \in 1..(i - 1) :
                call_sites[h].call_addr < call_sites[i].call_addr

\* the replacements before ri have been gone through and none is under way
BetweenReplacements ==
    \/ pc \in {"loop", "done"}
    \/ pc = "raised" /\ last.op = "collaborator_failed"

\* C11 as stated, in what it says of two replacements with the same source
\* address, and only for runs that return and whose section mapping is the
\* one the disassembly follows: the final word at each site both select is
\* a call to the target of the later one.
C11_LaterReplacementDecides ==
    (pc = "done" /\ section = <<0, ImageVBase>>) =>
        \A k \in Words0 :
            LET js == { j \in 1..Len(replacements) : Selects(j, k) } IN
            Cardinality(js) >= 2 =>
                LET w == unpack_from(data, 4 * (k - 1)) IN
                /\ is_bl(w)
                /\ bl_target(w, WordAddr(k)) = DstAddr(Greatest(js))

\* C11 as amended: the file keeps its original bytes until it is written at
\* commit; the call sites of every replacement are the words of that file
\* that call its source address, whatever the buffer holds by then; and the
\* buffer holds, at each site, the word of the last replacement in input
\* order that selected the site and whose patch of it succeeded, and the
\* original bytes everywhere else.  So with (A to B) then (B to C), A # B, a
\* site that called A and was patched ends calling B, not C.
C11_SitesComeFromTheFile ==
    /\ writes = 0 => disk = disk0
    /\ pc # "done" => writes = 0
    /\ pc = "sites" =>
          /\ old_addr = SrcAddr(ri)
          /\ new_addr = DstAddr(ri)
          /\ SitesAreOfOriginalFile
    /\ (Loaded /\ BetweenReplacements) => data = ExpectedBuffer(ri - 1)
    /\ (pc = "done" /\ writes = 1) =>
          disk = ExpectedBuffer(Len(replacements))

\* low -> alias (0x800 to 0x2000), then wb -> wb (0x2000 to 0x2040): the
\* word at 0x1000 called 0x800 and ends calling 0x2000, not 0x2040; the word
\* at 0x1004 called 0x2000 and ends calling 0x2040; the file is written
C11_Witness ==
    /\ pc = "done"
    /\ writes = 1
    /\ section = <<0, ImageVBase>>
    /\ replacements = << <<"low", "alias">>, <<"wb", "wb">> >>
    /\ OriginalCallee(1) = 2048
    /\ OriginalCallee(2) = 8192
    /\ total_patches = 2
    /\ bl_target(unpack_from(disk, 0), WordAddr(1)) = 8192
    /\ bl_target(unpack_from(disk, 4), WordAddr(2)) = 8256

====
